---- MODULE Spec2Model ----
(***************************************************************************)
(* Model of the schedule engine of svitlo_telegram_bot (src/scraper.py):   *)
(* the raw-payload cache behind _fetch_raw, and the pure derivation of     *)
(* outage intervals, totals and the current-power flag from half-hour      *)
(* slot maps.                                                              *)
(*                                                                         *)
(* Two specifications share the variables:                                 *)
(*   Spec      - concurrent coroutines calling _fetch_raw (the cache);     *)
(*   SpecSched - get_schedule evaluated on bounded payloads and instants.  *)
(***************************************************************************)
EXTENDS Integers, Sequences, FiniteSets, TLC

VARIABLES
    \* ---- the cache and its callers (Spec) ----
    clock,        \* time.time(), whole seconds
    nticks,       \* number of clock advances so far (bounded)
    upstream,     \* version of the document the upstream feed serves now
    RAW_CACHE,    \* _RAW_CACHE: region_cpu -> <<expires_epoch, raw_json>> or NoEntry
    pc,           \* per coroutine: "idle", "fetching", "returned", "raised"
    region_cpu,   \* per coroutine: argument of the running _fetch_raw call
    now,          \* per coroutine: the local `now` of the running call
    ret,          \* per coroutine: the payload the call returned
    kind,         \* per coroutine: "hit" or "miss" for the running call
    lastFetch,    \* the latest completed successful upstream fetch (history)
    ncalls,       \* number of _fetch_raw calls started so far (bounded)
    \* ---- one evaluation of get_schedule (SpecSched) ----
    sched,        \* the evaluation's inputs and, once computed, its result
    \* ---- calls of the pure functions on their own ----
    nextq,        \* _find_next_outage: the two lists and the calls made (SpecNext)
    hashq,        \* _hash_schedule: two inputs and their serializations (SpecHash)
    extq,         \* _extract_region_block/_extract_slots: payload, result (SpecExtract)
    \* ---- the bot and its database (SpecBot) ----
    chats,        \* table chats: chat_id -> row, or NoRow
    nextMsgId,    \* message_id Telegram gives to the next message sent
    log,          \* what the handler that ran last did (history)
    \* ---- coroutines inside the Database methods (SpecDb) ----
    dbcalls       \* per coroutine: the method it runs and where it is; counters

cacheVars == <<clock, nticks, upstream, RAW_CACHE, pc, region_cpu, now, ret,
               kind, lastFetch, ncalls>>
pureVars == <<nextq, hashq, extq>>
botVars == <<chats, nextMsgId, log>>
vars == <<clock, nticks, upstream, RAW_CACHE, pc, region_cpu, now, ret,
          kind, lastFetch, ncalls, sched, nextq, hashq, extq,
          chats, nextMsgId, log, dbcalls>>

(***************************************************************************)
(* Bounds of the model                                                     *)
(***************************************************************************)
MaxTicks == 3          \* clock advances per behaviour
MaxVersion == 2        \* versions of the upstream document
MaxCalls == 3          \* _fetch_raw calls per behaviour

Coroutines == {"a", "b"}
Regions == {"dnipropetrovska-oblast", "kyivska-oblast"}
\* Seconds by which the clock advances in one step: with these, calls 5 s
\* apart, a fetch that outlives the timeout, and the expiry instant itself
\* (5 + 595 = CACHE_TTL_SECONDS) are all reachable.
TickSteps == {5, 595}

(***************************************************************************)
(* Program constants                                                       *)
(***************************************************************************)
CACHE_TTL_SECONDS == 600
FETCH_TIMEOUT == 12

NoEntry == <<>>        \* _RAW_CACHE.get(region_cpu) is None
NoCall == [region |-> "", now |-> -1]

(***************************************************************************)
(* _fetch_raw, lines 136-139: the cache check.  `cached and cached[0] > now`*)
(***************************************************************************)
CacheLiveMutInverted(cached, t) == cached # NoEntry /\ cached[1] < t
CacheLive(cached, t) == cached # NoEntry /\ cached[1] > t

\* The entry stored on line 147: (now + CACHE_TTL_SECONDS, data)
NewEntryMutCompletion(t, data) == <<clock + CACHE_TTL_SECONDS, data>>
NewEntry(t, data) == <<t + CACHE_TTL_SECONDS, data>>

\* time.time() advances while coroutines are suspended
Tick(d) ==
    /\ nticks < MaxTicks
    /\ clock' = clock + d
    /\ nticks' = nticks + 1
    /\ UNCHANGED <<upstream, RAW_CACHE, pc, region_cpu, now, ret, kind, lastFetch,
                   ncalls, sched, pureVars, botVars, dbcalls>>

\* the upstream feed publishes a new document
UpstreamChange ==
    /\ upstream < MaxVersion
    /\ upstream' = upstream + 1
    /\ UNCHANGED <<clock, nticks, RAW_CACHE, pc, region_cpu, now, ret, kind,
                   lastFetch, ncalls, sched, pureVars, botVars, dbcalls>>

\* Lines 136-143: read the clock, look the region up; a live entry is
\* returned at once, otherwise the GET is issued and the coroutine suspends.
FetchRawBegin(p, r) ==
    /\ pc[p] = "idle"
    /\ ncalls < MaxCalls
    /\ ncalls' = ncalls + 1
    /\ region_cpu' = [region_cpu EXCEPT ![p] = r]
    /\ now' = [now EXCEPT ![p] = clock]
    /\ IF CacheLive(RAW_CACHE[r], clock)
       THEN /\ pc' = [pc EXCEPT ![p] = "returned"]
            /\ ret' = [ret EXCEPT ![p] = RAW_CACHE[r][2]]
            /\ kind' = [kind EXCEPT ![p] = "hit"]
       ELSE /\ pc' = [pc EXCEPT ![p] = "fetching"]
            /\ ret' = [ret EXCEPT ![p] = 0]
            /\ kind' = [kind EXCEPT ![p] = "miss"]
    /\ UNCHANGED <<clock, nticks, upstream, RAW_CACHE, lastFetch, sched, pureVars, botVars, dbcalls>>

\* Lines 144-148: the response arrived within the session's total timeout,
\* its status is a success and its body parses; store and return it.
FetchRawOk(p) ==
    /\ pc[p] = "fetching"
    /\ clock - now[p] <= FETCH_TIMEOUT
    /\ RAW_CACHE' = [RAW_CACHE EXCEPT ![region_cpu[p]] = NewEntry(now[p], upstream)]
    /\ ret' = [ret EXCEPT ![p] = upstream]
    /\ pc' = [pc EXCEPT ![p] = "returned"]
    /\ lastFetch' = [region |-> region_cpu[p], now |-> now[p]]
    /\ UNCHANGED <<clock, nticks, upstream, region_cpu, now, kind, ncalls, sched, pureVars, botVars, dbcalls>>

\* Lines 142-145 raise: timeout, raise_for_status() or resp.json() fails.
\* The exception leaves _fetch_raw before line 147.
FetchRawFailMutEvict(p) ==
    /\ pc[p] = "fetching"
    /\ pc' = [pc EXCEPT ![p] = "raised"]
    /\ RAW_CACHE' = [RAW_CACHE EXCEPT ![region_cpu[p]] = NoEntry]
    /\ UNCHANGED <<clock, nticks, upstream, region_cpu, now, ret,
                   kind, lastFetch, ncalls, sched, pureVars, botVars, dbcalls>>
FetchRawFail(p) ==
    /\ pc[p] = "fetching"
    /\ pc' = [pc EXCEPT ![p] = "raised"]
    /\ UNCHANGED <<clock, nticks, upstream, RAW_CACHE, region_cpu, now, ret,
                   kind, lastFetch, ncalls, sched, pureVars, botVars, dbcalls>>

\* The caller has the result (or the exception); the coroutine may call again.
FetchRawDone(p) ==
    /\ pc[p] \in {"returned", "raised"}
    /\ pc' = [pc EXCEPT ![p] = "idle"]
    /\ region_cpu' = [region_cpu EXCEPT ![p] = ""]
    /\ now' = [now EXCEPT ![p] = 0]
    /\ ret' = [ret EXCEPT ![p] = 0]
    /\ kind' = [kind EXCEPT ![p] = "none"]
    /\ UNCHANGED <<clock, nticks, upstream, RAW_CACHE, lastFetch, ncalls, sched, pureVars, botVars, dbcalls>>

(***************************************************************************)
(* Datetimes.  Every datetime of scraper.py carries the same tzinfo (TZ),  *)
(* so Python compares, subtracts and adds them by wall clock.  A datetime  *)
(* is the number of milliseconds of wall-clock time since 00:00 of day 0;  *)
(* a date string is its day number.                                        *)
(***************************************************************************)
SECOND == 1000
MINUTE == 60 * SECOND
HOUR == 60 * MINUTE
DAY == 24 * HOUR                 \* timedelta(days=1)
HALF_HOUR == 30 * MINUTE         \* HALF_HOUR = timedelta(minutes=30)

HourOf(dt) == (dt % DAY) \div HOUR        \* dt.hour
MinuteOf(dt) == (dt % HOUR) \div MINUTE   \* dt.minute

\* 2026-02-11 -> 2026-02-11 00:00 in TZ
_date_to_dt(date_str) == date_str * DAY

\* f"{dt.hour:02d}:{dt.minute:02d}", as the pair <<hour, minute>>
_time_str_from_dt(dt) == <<HourOf(dt), MinuteOf(dt)>>

\* dt.replace(minute=0 or 30, second=0, microsecond=0)
_round_down_to_half_hour(dt) ==
    LET minute == IF MinuteOf(dt) < 30 THEN 0 ELSE 30
    IN  (dt - (dt % HOUR)) + minute * MINUTE

\* while cur < end: times.append(cur); cur += HALF_HOUR
RECURSIVE IterFrom(_, _, _)
IterFrom(cur, end, times) ==
    IF cur < end THEN IterFrom(cur + HALF_HOUR, end, Append(times, cur))
    ELSE times

_iter_half_hours(day_start) == IterFrom(day_start, day_start + DAY, <<>>)

\* slots.get(key, 1)
SlotGet(m, k) == IF k \in DOMAIN m THEN m[k] ELSE 1

\* is_off = (status == 2)
IsOffMutNotOn(s) == s # 1
IsOff(s) == s = 2

NoDt == -1   \* off_start = None

\* One iteration of the loop of _slots_to_off_intervals (lines 82-99) on the
\* i-th boundary t (i counts from 0, n = len(times)).
OffStepMutNoMerge(st, i, t, n, slots, day_start) ==
    IF IsOff(SlotGet(slots, _time_str_from_dt(t)))
    THEN [st EXCEPT !.intervals =
             Append(@, [start |-> t, end |-> t + HALF_HOUR])]
    ELSE st
OffStepMutNoLastEdge(st, i, t, n, slots, day_start) ==
    LET is_off == IsOff(SlotGet(slots, _time_str_from_dt(t)))
        s1 == IF is_off /\ ~st.in_off
              THEN [st EXCEPT !.in_off = TRUE, !.off_start = t]
              ELSE st
    IN  IF (~is_off) /\ s1.in_off
        THEN [intervals |-> Append(s1.intervals,
                                   [start |-> s1.off_start, end |-> t]),
              in_off |-> FALSE, off_start |-> NoDt]
        ELSE s1
OffStep(st, i, t, n, slots, day_start) ==
    LET key == _time_str_from_dt(t)
        status == SlotGet(slots, key)
        is_off == IsOff(status)
        s1 == IF is_off /\ ~st.in_off
              THEN [st EXCEPT !.in_off = TRUE, !.off_start = t]
              ELSE st
        s2 == IF (~is_off) /\ s1.in_off
              THEN [intervals |-> Append(s1.intervals,
                                         [start |-> s1.off_start, end |-> t]),
                    in_off |-> FALSE, off_start |-> NoDt]
              ELSE s1
    IN  IF i = n - 1 /\ s2.in_off
        THEN [s2 EXCEPT !.intervals =
                 Append(@, [start |-> s2.off_start, end |-> day_start + DAY])]
        ELSE s2

RECURSIVE OffLoop(_, _, _, _, _)
OffLoop(st, i, ts, m, d0) ==
    IF i >= Len(ts) THEN st
    ELSE LET nx == OffStep(st, i, ts[i + 1], Len(ts), m, d0)
         IN  IF nx.in_off \in BOOLEAN   \* (evaluates nx before the next iteration)
             THEN OffLoop(nx, i + 1, ts, m, d0)
             ELSE nx

_slots_to_off_intervals(date_str, slots) ==
    LET day_start == _date_to_dt(date_str)
        times == _iter_half_hours(day_start)
    IN  OffLoop([intervals |-> <<>>, in_off |-> FALSE, off_start |-> NoDt],
                0, times, slots, day_start).intervals

\* int((it.end - it.start).total_seconds() // 60)
IntervalMinutesMutInclusive(it) == (((it.end - it.start) \div SECOND) - 1) \div 60
IntervalMinutes(it) == ((it.end - it.start) \div SECOND) \div 60

RECURSIVE TotalFrom(_, _, _)
TotalFrom(intervals, i, total) ==
    IF i > Len(intervals) THEN total
    ELSE TotalFrom(intervals, i + 1, total + IntervalMinutes(intervals[i]))

RECURSIVE SecondsFrom(_, _, _)
SecondsFrom(intervals, i, total) ==
    IF i > Len(intervals) THEN total
    ELSE SecondsFrom(intervals, i + 1,
                     total + ((intervals[i].end - intervals[i].start) \div SECOND))
_total_minutes_MutSeconds(intervals) == SecondsFrom(intervals, 1, 0)
_total_minutes(intervals) == TotalFrom(intervals, 1, 0)

_is_now_has_power_MutNoDayCheck(now_dt, date_today, slots_today) ==
    SlotGet(slots_today, _time_str_from_dt(_round_down_to_half_hour(now_dt))) = 1
_is_now_has_power(now_dt, date_today, slots_today) ==
    LET now_rounded == _round_down_to_half_hour(now_dt)
        today_start == _date_to_dt(date_today)
    IN  IF ~(today_start <= now_rounded /\ now_rounded < today_start + DAY)
        THEN TRUE
        ELSE SlotGet(slots_today, _time_str_from_dt(now_rounded)) = 1

\* sorted(today_off + tomorrow_off, key=lambda x: x.start): Python's sort is
\* stable, so an interval goes behind those whose start is not greater.
RECURSIVE InsertByStart(_, _, _)
InsertByStart(sorted, it, i) ==
    IF i > Len(sorted) THEN Append(sorted, it)
    ELSE IF sorted[i].start > it.start
         THEN SubSeq(sorted, 1, i - 1) \o <<it>> \o SubSeq(sorted, i, Len(sorted))
         ELSE InsertByStart(sorted, it, i + 1)

RECURSIVE SortedByStart(_, _, _)
SortedByStart(ivs, i, acc) ==
    IF i > Len(ivs) THEN acc
    ELSE SortedByStart(ivs, i + 1, InsertByStart(acc, ivs[i], 1))

\* for it in all_intervals: if it.start > now: return it.start;  return None
RECURSIVE FirstAfterMutWrap(_, _, _)
FirstAfterMutWrap(all_intervals, now_dt, i) ==
    IF i > Len(all_intervals)
    THEN IF Len(all_intervals) > 0 THEN all_intervals[1].start ELSE NoDt
    ELSE IF all_intervals[i].start > now_dt THEN all_intervals[i].start
         ELSE FirstAfterMutWrap(all_intervals, now_dt, i + 1)
RECURSIVE FirstAfterMutNotBefore(_, _, _)
FirstAfterMutNotBefore(all_intervals, now_dt, i) ==
    IF i > Len(all_intervals) THEN NoDt
    ELSE IF all_intervals[i].start >= now_dt THEN all_intervals[i].start
         ELSE FirstAfterMutNotBefore(all_intervals, now_dt, i + 1)
RECURSIVE FirstAfter(_, _, _)
FirstAfter(all_intervals, now_dt, i) ==
    IF i > Len(all_intervals) THEN NoDt
    ELSE IF all_intervals[i].start > now_dt THEN all_intervals[i].start
         ELSE FirstAfter(all_intervals, now_dt, i + 1)

_find_next_outage(now_dt, today_off, tomorrow_off) ==
    LET all_intervals == SortedByStart(today_off \o tomorrow_off, 1, <<>>)
    IN  FirstAfter(all_intervals, now_dt, 1)

\* Lines 206-209: int(((next_outage_start - now).total_seconds() + 59) // 60),
\* then max(delta_min, 0); None when there is no next outage.
NoMinutes == -1   \* next_outage_in_minutes = None
MinutesUntil(next_outage_start, now_dt) ==
    IF next_outage_start = NoDt THEN NoMinutes
    ELSE LET delta_min == ((next_outage_start - now_dt) + 59 * SECOND) \div MINUTE
         IN  IF delta_min > 0 THEN delta_min ELSE 0

(***************************************************************************)
(* Inputs of one get_schedule evaluation                                   *)
(***************************************************************************)
MaxStatus == 3         \* slot values range over 1..MaxStatus
Statuses == 1 .. MaxStatus

\* Half-hour keys that the payload may carry for today and for tomorrow.
TodayKeys == {<<0, 0>>, <<9, 30>>, <<10, 0>>, <<10, 30>>, <<23, 30>>}
TomorrowKeys == {<<0, 0>>}
SlotMaps(keys) == UNION {[ks -> Statuses] : ks \in SUBSET keys}

\* date_today of the payload (a day number); date_tomorrow is the next day.
PayloadDateToday == 1

\* Instants datetime.now(TZ) may return, relative to 00:00 of date_today.
NowOffsets ==
    { 10 * HOUR + 15 * MINUTE,                 \* 10:15:00.000
      10 * HOUR + 29 * MINUTE + 59 * SECOND + 999,  \* 10:29:59.999
      0,                                       \* 00:00:00.000 today
      DAY - 500,                               \* 23:59:59.500 today
      DAY + 10 * MINUTE,                       \* 00:10 tomorrow
      0 - 15 * MINUTE }                        \* 23:45 yesterday

NoSched == [stage |-> "none"]

\* get_schedule, lines 190-226, on the payload held in sched.
GetSchedule(now_dt) ==
    /\ sched.stage = "payload"
    /\ LET dT == sched.date_today
           dM == sched.date_tomorrow
           sT == sched.slots_today
           sM == sched.slots_tomorrow
       IN  \E offT \in {_slots_to_off_intervals(dT, sT)},
              offM \in {_slots_to_off_intervals(dM, sM)} :
             \E next_outage_start \in {_find_next_outage(now_dt, offT, offM)} :
                sched' = [stage |-> "result",
                          date_today |-> dT,
                          date_tomorrow |-> dM,
                          slots_today |-> sT,
                          slots_tomorrow |-> sM,
                          now |-> now_dt,
                          now_has_power |-> _is_now_has_power(now_dt, dT, sT),
                          today_off |-> offT,
                          tomorrow_off |-> offM,
                          total_off_today_minutes |-> _total_minutes(offT),
                          next_outage_start_dt |-> next_outage_start,
                          next_outage_in_minutes |->
                             MinutesUntil(next_outage_start, now_dt)]
    /\ UNCHANGED <<cacheVars, pureVars, botVars, dbcalls>>

InitCache ==
    /\ clock = 0
    /\ nticks = 0
    /\ upstream = 1
    /\ RAW_CACHE = [r \in Regions |-> NoEntry]
    /\ pc = [p \in Coroutines |-> "idle"]
    /\ region_cpu = [p \in Coroutines |-> ""]
    /\ now = [p \in Coroutines |-> 0]
    /\ ret = [p \in Coroutines |-> 0]
    /\ kind = [p \in Coroutines |-> "none"]
    /\ lastFetch = NoCall
    /\ ncalls = 0

\* Table chats is empty until a handler calls get_or_create_chat; Telegram
\* hands out message ids in increasing order.
ChatIds == {1}
NoGroup == ""     \* group_name IS NULL
NoMessage == 0    \* last_message_id IS NULL
NoHash == [group |-> "", version |-> 0]   \* last_schedule_hash IS NULL
NoRow ==
    [present |-> FALSE, group_name |-> NoGroup, group_selected |-> 0,
     notify_enabled |-> 0, last_schedule_hash |-> NoHash,
     last_message_id |-> NoMessage]
NoLog == [handler |-> "none"]
\* A coroutine that is in no Database method
IdleCall ==
    [op |-> "none", pc |-> "idle", chat |-> NoRow, ret_row |-> NoRow,
     ret_flag |-> FALSE, stored |-> 0]
NoDbCalls ==
    [procs |-> [p \in Coroutines |-> IdleCall], started |-> 0,
     toggles_started |-> 0, toggles_done |-> 0, initial |-> NoRow]
InitBotIdle ==
    /\ chats = [c \in ChatIds |-> NoRow]
    /\ nextMsgId = 1
    /\ log = NoLog
    /\ dbcalls = NoDbCalls

NoQ == [stage |-> "none"]
InitPureIdle == nextq = NoQ /\ hashq = NoQ /\ extq = NoQ

Init ==
    /\ InitCache
    /\ sched = NoSched
    /\ InitPureIdle
    /\ InitBotIdle
Next ==
    \/ \E d \in TickSteps : Tick(d)
    \/ UpstreamChange
    \/ \E p \in Coroutines, r \in Regions : FetchRawBegin(p, r)
    \/ \E p \in Coroutines : FetchRawOk(p)
    \/ \E p \in Coroutines : FetchRawFail(p)
    \/ \E p \in Coroutines : FetchRawDone(p)

Spec == Init /\ [][Next]_vars

\* The payload _fetch_raw returned to get_schedule: its two dates and the
\* slot maps _extract_slots found for the chat's group.
InitSched ==
    /\ InitCache
    /\ InitPureIdle
    /\ InitBotIdle
    /\ \E st \in SlotMaps(TodayKeys), sm \in SlotMaps(TomorrowKeys) :
          sched = [stage |-> "payload",
                   date_today |-> PayloadDateToday,
                   date_tomorrow |-> PayloadDateToday + 1,
                   slots_today |-> st,
                   slots_tomorrow |-> sm]

NextSched ==
    \E off \in NowOffsets : GetSchedule(_date_to_dt(PayloadDateToday) + off)

SpecSched == InitSched /\ [][NextSched]_vars

(***************************************************************************)
(* _find_next_outage on its own: fixed interval lists, probed at           *)
(* increasing instants                                                     *)
(***************************************************************************)
MaxIntervals == 2   \* longest today_off / tomorrow_off list tried
MaxProbes == 2      \* calls of _find_next_outage on the same lists

\* Intervals the lists are drawn from; the lists need not be ordered, which
\* is what the sort inside _find_next_outage is for.
OutagePool ==
    { [start |-> 1 * HALF_HOUR, end |-> 3 * HALF_HOUR],
      [start |-> 2 * HALF_HOUR, end |-> 3 * HALF_HOUR],
      [start |-> 3 * HALF_HOUR, end |-> 4 * HALF_HOUR] }
IntervalLists == UNION { [1 .. k -> OutagePool] : k \in 0 .. MaxIntervals }
ProbeInstants ==
    { 0, HALF_HOUR, HALF_HOUR + 1, 2 * HALF_HOUR - 1, 2 * HALF_HOUR,
      3 * HALF_HOUR, 4 * HALF_HOUR }

FindNextOutage(now_dt) ==
    /\ nextq.stage = "lists"
    /\ Len(nextq.calls) < MaxProbes
    /\ Len(nextq.calls) > 0 => now_dt > nextq.calls[Len(nextq.calls)].now
    /\ nextq' = [nextq EXCEPT !.calls =
                    Append(@, [now |-> now_dt,
                               res |-> _find_next_outage(now_dt, nextq.today_off,
                                                         nextq.tomorrow_off)])]
    /\ UNCHANGED <<cacheVars, sched, hashq, extq, botVars, dbcalls>>

InitNext ==
    /\ InitCache
    /\ sched = NoSched
    /\ hashq = NoQ
    /\ extq = NoQ
    /\ InitBotIdle
    /\ \E T \in IntervalLists, M \in IntervalLists :
          nextq = [stage |-> "lists", today_off |-> T, tomorrow_off |-> M,
                   calls |-> <<>>]

NextNext == \E n \in ProbeInstants : FindNextOutage(n)

SpecNext == InitNext /\ [][NextNext]_vars

(***************************************************************************)
(* _hash_schedule: the string it digests, character by character           *)
(***************************************************************************)
DigitChars == <<"0", "1", "2", "3", "4", "5", "6", "7", "8", "9">>
Digit(n) == DigitChars[n + 1]

\* str(n) of a Python int
RECURSIVE NatChars(_)
NatChars(n) ==
    IF n < 10 THEN <<Digit(n)>>
    ELSE Append(NatChars(n \div 10), Digit(n % 10))
IntChars(n) == IF n < 0 THEN <<"-">> \o NatChars(0 - n) ELSE NatChars(n)

\* f"{n:02d}" for 0 <= n < 100
TwoDigits(n) == <<Digit(n \div 10), Digit(n % 10)>>

\* The key <<hour, minute>> as the string "HH:MM"
KeyChars(key) == TwoDigits(key[1]) \o <<":">> \o TwoDigits(key[2])

\* date_str of day number d: "2026-02-dd"
DateChars(d) == <<"2", "0", "2", "6", "-", "0", "2", "-">> \o TwoDigits(d)

\* status = int(slots.get(key, 1))
HashStatusMutDefaultOff(slots, key) == IF key \in DOMAIN slots THEN slots[key] ELSE 2
HashStatus(slots, key) == SlotGet(slots, key)

\* f"{date_str} {key}={status}"
HashPart(date_str, key, status) ==
    DateChars(date_str) \o <<" ">> \o KeyChars(key) \o <<"=">> \o IntChars(status)

\* "|".join(parts) over the 48 boundaries of the day, in order
RECURSIVE JoinParts(_, _, _, _, _)
JoinParts(ts, i, acc, date_str, slots) ==
    IF i > Len(ts) THEN acc
    ELSE LET key == _time_str_from_dt(ts[i])
             part == HashPart(date_str, key, HashStatus(slots, key))
             nx == IF i = 1 THEN part ELSE acc \o <<"|">> \o part
         IN  IF Len(nx) > 0   \* (evaluates nx before the next iteration)
             THEN JoinParts(ts, i + 1, nx, date_str, slots)
             ELSE nx

_slots_normalized_for_hash(date_str, slots) ==
    JoinParts(_iter_half_hours(_date_to_dt(date_str)), 1, <<>>, date_str, slots)

\* s = normalized(today) + "||" + normalized(tomorrow)
HashInputMutTodayTwice(date_today, slots_today, date_tomorrow, slots_tomorrow) ==
    _slots_normalized_for_hash(date_today, slots_today) \o <<"|", "|">>
        \o _slots_normalized_for_hash(date_tomorrow, slots_today)
HashInput(date_today, slots_today, date_tomorrow, slots_tomorrow) ==
    _slots_normalized_for_hash(date_today, slots_today) \o <<"|", "|">>
        \o _slots_normalized_for_hash(date_tomorrow, slots_tomorrow)

\* hashlib.sha256(s.encode("utf-8")).hexdigest(): a digest is represented by
\* the string it was computed from (collisions of SHA-256 are not modelled).
sha256(str) == [digest_of |-> str]
_hash_schedule(date_today, slots_today, date_tomorrow, slots_tomorrow) ==
    sha256(HashInput(date_today, slots_today, date_tomorrow, slots_tomorrow))

\* Slot maps handed to _hash_schedule: a first pair of maps, and a second
\* pair made of the same or another base map with one edit of one day's map.
HashStatuses == {1, 2, 12, 0 - 1}
JunkKey == <<10, 15>>   \* a key that is not one of the 48 boundaries
BaseToday ==
    { <<>>,
      (<<0, 0>> :> 2),
      (<<10, 0>> :> 2) @@ (<<10, 30>> :> 12) @@ (<<23, 30>> :> 1) }
BaseTomorrow == { <<>>, (<<0, 0>> :> 2) @@ (<<23, 30>> :> 2) }
BoundaryKeys == {<<h, m>> : h \in 0 .. 23, m \in {0, 30}}
HashEdits ==
    [kind : {"set"}, day : {"today", "tomorrow"}, key : BoundaryKeys,
     status : HashStatuses]
    \cup [kind : {"set"}, day : {"today", "tomorrow"}, key : {JunkKey},
          status : HashStatuses]
    \cup [kind : {"drop"}, day : {"today", "tomorrow"},
          key : {<<0, 0>>, <<10, 30>>, <<23, 30>>}, status : {1}]

\* The map after the edit: d[key] = status, or d.pop(key, None)
EditMap(m, e) ==
    IF e.kind = "set" THEN (e.key :> e.status) @@ m
    ELSE [k \in DOMAIN m \ {e.key} |-> m[k]]

HashSchedule ==
    /\ hashq.stage = "args"
    /\ \E sA \in {HashInput(hashq.date_today, hashq.today_a,
                            hashq.date_tomorrow, hashq.tomorrow_a)},
          sB \in {HashInput(hashq.date_today, hashq.today_b,
                            hashq.date_tomorrow, hashq.tomorrow_b)} :
          hashq' = [hashq EXCEPT
                       !.stage = "result",
                       !.len_a = Len(sA),
                       !.len_b = Len(sB),
                       !.same_input = (sA = sB),
                       !.same_hash = (sha256(sA) = sha256(sB))]
    /\ UNCHANGED <<cacheVars, sched, nextq, extq, botVars, dbcalls>>

InitHash ==
    /\ InitCache
    /\ sched = NoSched
    /\ nextq = NoQ
    /\ extq = NoQ
    /\ InitBotIdle
    /\ \E T \in BaseToday, M \in BaseTomorrow, M2 \in BaseTomorrow, e \in HashEdits :
          hashq = [stage |-> "args",
                   date_today |-> PayloadDateToday,
                   date_tomorrow |-> PayloadDateToday + 1,
                   today_a |-> T,
                   tomorrow_a |-> M,
                   today_b |-> IF e.day = "today" THEN EditMap(T, e) ELSE T,
                   tomorrow_b |-> IF e.day = "tomorrow" THEN EditMap(M2, e) ELSE M2,
                   len_a |-> 0, len_b |-> 0,
                   same_input |-> FALSE, same_hash |-> FALSE]

NextHash == HashSchedule

SpecHash == InitHash /\ [][NextHash]_vars

(***************************************************************************)
(* _extract_region_block and _extract_slots on a decoded JSON payload      *)
(***************************************************************************)
\* Decoded JSON values, tagged with their Python type. A dict is a function
\* from its keys; a str is its sequence of characters; a float is given in
\* tenths.
JNull == [t |-> "null", v |-> 0]
JInt(n) == [t |-> "int", v |-> n]
JFloat(tenths) == [t |-> "float", v |-> tenths]
JStr(cs) == [t |-> "str", v |-> cs]
JList(items) == [t |-> "list", v |-> items]
JDict(f) == [t |-> "dict", v |-> f]
EmptyDict == JDict(<<>>)

\* d.get(k, default) on a dict
DictGet(d, k, default) == IF k \in DOMAIN d.v THEN d.v[k] ELSE default

\* x or {}: None and the empty dict are falsy
OrEmpty(j) ==
    IF j.t = "null" \/ (j.t = "dict" /\ DOMAIN j.v = {}) THEN EmptyDict ELSE j

\* int(v): a record [ok, v]; ok = FALSE stands for the ValueError / TypeError
\* that line 173 catches.
IsDigit(c) == \E n \in 1 .. 10 : DigitChars[n] = c
DigitVal(c) == (CHOOSE n \in 1 .. 10 : DigitChars[n] = c) - 1
RECURSIVE StripLeft(_)
StripLeft(cs) == IF cs # <<>> /\ cs[1] = " " THEN StripLeft(Tail(cs)) ELSE cs
RECURSIVE StripRight(_)
StripRight(cs) ==
    IF cs # <<>> /\ cs[Len(cs)] = " "
    THEN StripRight(SubSeq(cs, 1, Len(cs) - 1)) ELSE cs
RECURSIVE DigitsValue(_, _, _)
DigitsValue(ds, i, acc) ==
    IF i > Len(ds) THEN acc ELSE DigitsValue(ds, i + 1, 10 * acc + DigitVal(ds[i]))
IntOfStr(cs) ==
    LET body == StripRight(StripLeft(cs))
        signed == body # <<>> /\ body[1] \in {"+", "-"}
        ds == IF signed THEN Tail(body) ELSE body
    IN  IF ds = <<>> \/ \E i \in DOMAIN ds : ~IsDigit(ds[i])
        THEN [ok |-> FALSE, v |-> 0]
        ELSE [ok |-> TRUE,
              v |-> IF signed /\ body[1] = "-" THEN 0 - DigitsValue(ds, 1, 0)
                    ELSE DigitsValue(ds, 1, 0)]
PyIntMutBadIsOff(j) ==
    CASE j.t = "int" -> [ok |-> TRUE, v |-> j.v]
      [] j.t = "float" -> [ok |-> TRUE, v |-> j.v \div 10]
      [] j.t = "str" -> IF IntOfStr(j.v).ok THEN IntOfStr(j.v) ELSE [ok |-> TRUE, v |-> 2]
      [] OTHER -> [ok |-> TRUE, v |-> 2]
PyInt(j) ==
    CASE j.t = "int" -> [ok |-> TRUE, v |-> j.v]
      [] j.t = "float" -> [ok |-> TRUE, v |-> j.v \div 10]   \* non-negative floats only
      [] j.t = "str" -> IntOfStr(j.v)
      [] OTHER -> [ok |-> FALSE, v |-> 0]

\* for r in regions: if r.get("cpu") == region_cpu: return r;  raise ValueError
RECURSIVE FirstRegion(_, _, _)
FirstRegion(regions, cpu, i) ==
    IF i > Len(regions) THEN [raised |-> TRUE, block |-> EmptyDict]
    ELSE LET c == DictGet(regions[i], "cpu", JNull)
         IN  IF c.t = "str" /\ c.v = cpu
             THEN [raised |-> FALSE, block |-> regions[i]]
             ELSE FirstRegion(regions, cpu, i + 1)

_extract_region_block(payload, cpu) ==
    FirstRegion(DictGet(payload, "regions", JList(<<>>)).v, cpu, 1)

_extract_slots(region_block, group_name, date_str) ==
    LET schedule == OrEmpty(DictGet(region_block, "schedule", EmptyDict))
        group_block == OrEmpty(DictGet(schedule, group_name, EmptyDict))
        day_slots == OrEmpty(DictGet(group_block, date_str, EmptyDict))
        kept == {k \in DOMAIN day_slots.v : PyInt(day_slots.v[k]).ok}
    IN  [k \in kept |-> PyInt(day_slots.v[k]).v]

\* Payloads tried. Values a slot may carry in the feed:
RawValues ==
    { JInt(1), JInt(2), JStr(<<"2">>), JStr(<<" ", "2">>), JStr(<<"x">>),
      JStr(<<"2", ".", "0">>), JStr(<<>>), JNull, JFloat(25) }
ExtractKeys == {<<10, 0>>, <<10, 30>>}
RawSlotDicts == UNION { [ks -> RawValues] : ks \in SUBSET ExtractKeys }
ExtractRegion == "dnipropetrovska-oblast"
OtherRegion == "kyivska-oblast"
ExtractGroup == "1.1"
OtherGroup == "1.2"
Shapes == {"missing", "null", "empty", "present"}
RegionShapes == {"no_key", "empty", "other_only", "other_then_target", "target_twice"}

\* A dict that holds key k in the given shape: k absent (another key is
\* there instead), k: null, k: {} or k: inner.
Holding(shape, k, other, inner) ==
    CASE shape = "missing" -> JDict(other :> inner)
      [] shape = "null" -> JDict(k :> JNull)
      [] shape = "empty" -> JDict(k :> EmptyDict)
      [] OTHER -> JDict(k :> inner)

RegionBlock(cpu, schedule_shape, schedule) ==
    IF schedule_shape = "missing" THEN JDict("cpu" :> JStr(cpu))
    ELSE IF schedule_shape = "null"
         THEN JDict(("cpu" :> JStr(cpu)) @@ ("schedule" :> JNull))
         ELSE JDict(("cpu" :> JStr(cpu)) @@ ("schedule" :> schedule))

PayloadOf(region_shape, target, decoy) ==
    CASE region_shape = "no_key" -> JDict("date_today" :> JInt(PayloadDateToday))
      [] region_shape = "empty" -> JDict("regions" :> JList(<<>>))
      [] region_shape = "other_only" -> JDict("regions" :> JList(<<decoy>>))
      [] region_shape = "other_then_target" ->
            JDict("regions" :> JList(<<decoy, target>>))
      [] OTHER -> JDict("regions" :> JList(<<target, decoy>>))

\* lines 194-200 of get_schedule for one date: region block, slots, then the
\* intervals and the total computed from the slots.
ExtractSlots ==
    /\ extq.stage = "args"
    /\ \E rb \in {_extract_region_block(extq.payload, extq.region_cpu)} :
          IF rb.raised
          THEN extq' = [extq EXCEPT !.stage = "result", !.raised = "ValueError"]
          ELSE \E slots \in {_extract_slots(rb.block, extq.group_name, extq.date_str)} :
                  \E off \in {_slots_to_off_intervals(extq.date_str, slots)} :
                     extq' = [extq EXCEPT !.stage = "result",
                                          !.slots = slots,
                                          !.off = off,
                                          !.total_off_minutes = _total_minutes(off)]
    /\ UNCHANGED <<cacheVars, sched, nextq, hashq, botVars, dbcalls>>

InitExtract ==
    /\ InitCache
    /\ sched = NoSched
    /\ nextq = NoQ
    /\ hashq = NoQ
    /\ InitBotIdle
    /\ \E rs \in RegionShapes, ss \in Shapes \ {"empty"}, gs \in Shapes, ds \in Shapes,
          raw \in RawSlotDicts :
          LET day == JDict(raw)
              group == Holding(ds, PayloadDateToday, PayloadDateToday + 1, day)
              schedule == Holding(gs, ExtractGroup, OtherGroup, group)
              target == RegionBlock(ExtractRegion, ss, schedule)
              decoy == IF rs = "target_twice"
                       THEN RegionBlock(ExtractRegion, "missing", schedule)
                       ELSE RegionBlock(OtherRegion, "present", schedule)
          IN  extq = [stage |-> "args",
                      payload |-> PayloadOf(rs, target, decoy),
                      region_cpu |-> ExtractRegion,
                      group_name |-> ExtractGroup,
                      date_str |-> PayloadDateToday,
                      raised |-> "none",
                      slots |-> <<>>,
                      off |-> <<>>,
                      total_off_minutes |-> 0]

NextExtract == ExtractSlots

SpecExtract == InitExtract /\ [][NextExtract]_vars

(***************************************************************************)
(* The bot: handlers of bot.py over the chats table of database.py.        *)
(* The Application is built without concurrent_updates, so one handler     *)
(* runs to completion before the next update is taken.                     *)
(***************************************************************************)
MaxMsgId == 4   \* handlers start only while Telegram's next message id is at most this

VALID_GROUPS ==
    <<"1.1", "1.2", "2.1", "2.2", "3.1", "3.2",
      "4.1", "4.2", "5.1", "5.2", "6.1", "6.2">>
IsValidGroup(g) == \E i \in DOMAIN VALID_GROUPS : VALID_GROUPS[i] = g
\* Texts a user can put after /group or into a "group:" callback
GroupInputs == {"1.1", "6.2", "7.1"}

\* data["schedule_hash"] of the schedule that get_schedule returns for a
\* group while the feed is at a given version
ScheduleHashOf(g, v) == [group |-> g, version |-> v]

\* What the outside world does during one render: get_schedule returns or
\* raises, the feed's version, and whether Telegram accepts the edit.
RenderInputs == [sched_ok : BOOLEAN, version : 1 .. MaxVersion, edit_ok : BOOLEAN]

\* INSERT INTO chats (chat_id, created_at, updated_at): column defaults
NewRow == [NoRow EXCEPT !.present = TRUE]
get_or_create_chat(row) == IF row.present THEN row ELSE NewRow

\* UPDATE chats SET group_name = ?, group_selected = 1
set_group(row, g) == [row EXCEPT !.group_name = g, !.group_selected = 1]
set_last_message_id(row, id) == [row EXCEPT !.last_message_id = id]
update_schedule_hash(row, h) == [row EXCEPT !.last_schedule_hash = h]
toggle_notify(row) ==
    LET chat == get_or_create_chat(row)
    IN  [chat EXCEPT !.notify_enabled = IF chat.notify_enabled = 1 THEN 0 ELSE 1]

\* The run of one handler: the chat's row, Telegram's next message id, and
\* what the handler has done so far.
Begin(handler, c) ==
    [handler |-> handler, chat |-> c, row |-> chats[c], next_id |-> nextMsgId,
     entry_selected |-> get_or_create_chat(chats[c]).group_selected,
     sent |-> <<>>, edited |-> <<>>, edit_failed |-> FALSE,
     get_schedule |-> <<>>, raised |-> FALSE, set_group |-> <<>>,
     render |-> FALSE, render_entry |-> NoRow, shown |-> NoHash]

\* context.bot.send_message / message.reply_text: Telegram assigns the id
send_message(e, what) ==
    [e EXCEPT !.sent = Append(@, [what |-> what, id |-> e.next_id]),
              !.next_id = @ + 1]

show_group_picker(e) ==
    LET e1 == [e EXCEPT !.row = get_or_create_chat(@)]
        e2 == send_message(e1, "picker")
    IN  [e2 EXCEPT !.row = set_last_message_id(@, e1.next_id)]

render_or_edit_main_message_MutNoReturn(e, inp) ==
    LET chat == get_or_create_chat(e.row)
        e1 == [e EXCEPT !.row = chat, !.render = TRUE, !.render_entry = chat]
    IN  IF chat.group_selected = 0 THEN show_group_picker(e1)
        ELSE LET e2 == [e1 EXCEPT !.get_schedule = Append(@, chat.group_name)]
                 hash == ScheduleHashOf(chat.group_name, inp.version)
             IN  IF ~inp.sched_ok THEN [e2 EXCEPT !.raised = TRUE]
                 ELSE LET e3 == IF chat.last_message_id # NoMessage /\ inp.edit_ok
                                THEN [e2 EXCEPT !.edited = Append(@, chat.last_message_id),
                                                !.shown = hash]
                                ELSE [e2 EXCEPT !.edit_failed =
                                                   (chat.last_message_id # NoMessage)]
                          e4 == send_message(e3, "card")
                      IN  [e4 EXCEPT
                             !.row = update_schedule_hash(
                                        set_last_message_id(@, e3.next_id), hash),
                             !.shown = hash]
render_or_edit_main_message_MutHashFirst(e, inp) ==
    LET chat == get_or_create_chat(e.row)
        e1 == [e EXCEPT !.row = update_schedule_hash(
                                   chat, ScheduleHashOf(chat.group_name, inp.version)),
                        !.render = TRUE, !.render_entry = chat]
    IN  IF chat.group_selected = 0 THEN show_group_picker(e1)
        ELSE LET e2 == [e1 EXCEPT !.get_schedule = Append(@, chat.group_name)]
                 hash == ScheduleHashOf(chat.group_name, inp.version)
             IN  IF ~inp.sched_ok THEN [e2 EXCEPT !.raised = TRUE]
                 ELSE IF chat.last_message_id # NoMessage /\ inp.edit_ok
                 THEN [e2 EXCEPT !.edited = Append(@, chat.last_message_id),
                                 !.shown = hash]
                 ELSE LET e3 == [e2 EXCEPT !.edit_failed =
                                              (chat.last_message_id # NoMessage)]
                          e4 == send_message(e3, "card")
                      IN  [e4 EXCEPT !.row = set_last_message_id(@, e3.next_id),
                                     !.shown = hash]
render_or_edit_main_message_MutNoGate(e, inp) ==
    LET chat == get_or_create_chat(e.row)
        e1 == [e EXCEPT !.row = chat, !.render = TRUE, !.render_entry = chat]
        e2 == [e1 EXCEPT !.get_schedule = Append(@, chat.group_name)]
        hash == ScheduleHashOf(chat.group_name, inp.version)
    IN  IF ~inp.sched_ok THEN [e2 EXCEPT !.raised = TRUE]
        ELSE IF chat.last_message_id # NoMessage /\ inp.edit_ok
        THEN [e2 EXCEPT !.edited = Append(@, chat.last_message_id),
                        !.shown = hash,
                        !.row = update_schedule_hash(@, hash)]
        ELSE LET e3 == [e2 EXCEPT !.edit_failed = (chat.last_message_id # NoMessage)]
                 e4 == send_message(e3, "card")
             IN  [e4 EXCEPT
                    !.row = update_schedule_hash(
                               set_last_message_id(@, e3.next_id), hash),
                    !.shown = hash]
\* Lines 126-166. get_schedule raising leaves the handler at line 141; an
\* edit Telegram rejects is caught at line 157 and followed by a send.
render_or_edit_main_message(e, inp) ==
    LET chat == get_or_create_chat(e.row)
        e1 == [e EXCEPT !.row = chat, !.render = TRUE, !.render_entry = chat]
    IN  IF chat.group_selected = 0 THEN show_group_picker(e1)
        ELSE LET e2 == [e1 EXCEPT !.get_schedule = Append(@, chat.group_name)]
                 hash == ScheduleHashOf(chat.group_name, inp.version)
             IN  IF ~inp.sched_ok THEN [e2 EXCEPT !.raised = TRUE]
                 ELSE IF chat.last_message_id # NoMessage /\ inp.edit_ok
                 THEN [e2 EXCEPT !.edited = Append(@, chat.last_message_id),
                                 !.shown = hash,
                                 !.row = update_schedule_hash(@, hash)]
                 ELSE LET e3 == [e2 EXCEPT !.edit_failed =
                                              (chat.last_message_id # NoMessage)]
                          e4 == send_message(e3, "card")
                      IN  [e4 EXCEPT
                             !.row = update_schedule_hash(
                                        set_last_message_id(@, e3.next_id), hash),
                             !.shown = hash]

\* The handler's writes reach the table, Telegram's counter moves on, and
\* the run is kept for inspection.
Finish(e) ==
    /\ chats' = [chats EXCEPT ![e.chat] = e.row]
    /\ nextMsgId' = e.next_id
    /\ log' = [e EXCEPT !.row = chats[e.chat]]
    /\ UNCHANGED <<cacheVars, sched, pureVars, dbcalls>>

CanStart == nextMsgId <= MaxMsgId

start_cmd(c, inp) ==
    /\ CanStart
    /\ LET e == Begin("start", c)
           e1 == [e EXCEPT !.row = get_or_create_chat(@)]
       IN  IF e1.row.group_selected = 0
           THEN Finish(show_group_picker(e1))
           ELSE Finish(render_or_edit_main_message(e1, inp))

schedule_cmd(c, inp) ==
    /\ CanStart
    /\ LET e == Begin("schedule", c)
           e1 == [e EXCEPT !.row = get_or_create_chat(@)]
       IN  Finish(render_or_edit_main_message(e1, inp))

group_cmd(c, args, inp) ==
    /\ CanStart
    /\ LET e == Begin("group", c)
           e1 == [e EXCEPT !.row = get_or_create_chat(@)]
       IN  IF args # <<>>
           THEN IF ~IsValidGroup(args[1])
                THEN Finish(send_message(e1, "reply"))
                ELSE Finish(render_or_edit_main_message(
                               [e1 EXCEPT !.row = set_group(@, args[1]),
                                          !.set_group = Append(@, args[1])], inp))
           ELSE Finish(send_message(e1, "reply"))

notify_cmd(c, inp) ==
    /\ CanStart
    /\ LET e == Begin("notify", c)
           e1 == [e EXCEPT !.row = toggle_notify(get_or_create_chat(@))]
           e2 == send_message(e1, "reply")
       IN  Finish(render_or_edit_main_message(e2, inp))

info_cmd(c) ==
    /\ CanStart
    /\ Finish(send_message(Begin("info", c), "reply"))

\* on_callback: a button of an earlier bot message (message_id) was pressed
on_callback(c, data, g, message_id, inp) ==
    /\ CanStart
    /\ message_id < nextMsgId
    /\ LET e == Begin(data, c)
           e1 == [e EXCEPT !.row = get_or_create_chat(@)]
       IN  CASE data \in {"refresh", "back_main"} ->
                   Finish(render_or_edit_main_message(e1, inp))
             [] data = "toggle_notify" ->
                   Finish(render_or_edit_main_message(
                             [e1 EXCEPT !.row = toggle_notify(@)], inp))
             [] data = "open_groups" ->
                   IF inp.edit_ok
                   THEN Finish([e1 EXCEPT !.edited = Append(@, message_id)])
                   ELSE Finish(send_message(e1, "reply"))
             [] OTHER ->    \* data.startswith("group:")
                   IF ~IsValidGroup(g)
                   THEN Finish(send_message(e1, "reply"))
                   ELSE Finish(render_or_edit_main_message(
                                  [e1 EXCEPT
                                     !.row = set_last_message_id(set_group(@, g),
                                                                 message_id),
                                     !.set_group = Append(@, g)], inp))

CallbackData == {"refresh", "toggle_notify", "open_groups", "back_main", "group:"}

InitBot ==
    /\ InitCache
    /\ sched = NoSched
    /\ InitPureIdle
    /\ InitBotIdle

NextBot ==
    \E c \in ChatIds, inp \in RenderInputs :
        \/ start_cmd(c, inp)
        \/ schedule_cmd(c, inp)
        \/ \E args \in {<<>>} \cup {<<g>> : g \in GroupInputs} : group_cmd(c, args, inp)
        \/ notify_cmd(c, inp)
        \/ info_cmd(c)
        \/ \E data \in CallbackData, message_id \in 1 .. nextMsgId - 1 :
              \E g \in IF data = "group:" THEN GroupInputs ELSE {""} :
                 on_callback(c, data, g, message_id, inp)

SpecBot == InitBot /\ [][NextBot]_vars

(***************************************************************************)
(* Database.get_or_create_chat and Database.toggle_notify run by           *)
(* concurrent coroutines for one chat. Every statement of aiosqlite is     *)
(* awaited on a connection of its own and committed, so a coroutine can be *)
(* suspended between any two of them.                                      *)
(***************************************************************************)
MaxDbCalls == 3   \* Database method calls started in one behaviour
DbChat == CHOOSE c \in ChatIds : TRUE
DbOps == {"get_or_create_chat", "toggle_notify"}

SetCall(p, call) == [dbcalls EXCEPT !.procs[p] = call]

\* The method is called; its first statement is get_chat's SELECT.
DbBegin(p, op) ==
    /\ dbcalls.procs[p].pc \in {"idle", "returned"}
    /\ dbcalls.started < MaxDbCalls
    /\ dbcalls' = [dbcalls EXCEPT
                      !.procs[p] = [IdleCall EXCEPT !.op = op, !.pc = "select"],
                      !.started = @ + 1,
                      !.toggles_started = IF op = "toggle_notify" THEN @ + 1 ELSE @]
    /\ UNCHANGED <<cacheVars, sched, pureVars, botVars>>

\* get_or_create_chat has the row: it returns it, and toggle_notify goes on
\* to compute new_value from it.
GotRow(p, row) ==
    IF dbcalls.procs[p].op = "get_or_create_chat"
    THEN SetCall(p, [dbcalls.procs[p] EXCEPT !.pc = "returned", !.ret_row = row])
    ELSE SetCall(p, [dbcalls.procs[p] EXCEPT !.pc = "update", !.chat = row])

\* Lines 62-64: row = await self.get_chat(chat_id); if row: return row
DbSelect(p) ==
    /\ dbcalls.procs[p].pc = "select"
    /\ dbcalls' = IF chats[DbChat].present
                  THEN GotRow(p, chats[DbChat])
                  ELSE SetCall(p, [dbcalls.procs[p] EXCEPT !.pc = "insert"])
    /\ UNCHANGED <<cacheVars, sched, pureVars, botVars>>

\* Lines 66-75: INSERT INTO chats (chat_id, ...). chat_id is the PRIMARY KEY:
\* with the row already there the statement raises sqlite3.IntegrityError.
DbInsert(p) ==
    /\ dbcalls.procs[p].pc = "insert"
    /\ IF chats[DbChat].present
       THEN /\ dbcalls' = SetCall(p, [dbcalls.procs[p] EXCEPT !.pc = "raised"])
            /\ UNCHANGED chats
       ELSE /\ chats' = [chats EXCEPT ![DbChat] = NewRow]
            /\ dbcalls' = SetCall(p, [dbcalls.procs[p] EXCEPT !.pc = "reselect"])
    /\ UNCHANGED <<cacheVars, sched, pureVars, nextMsgId, log>>

\* Line 77: return await self.get_chat(chat_id)
DbReselect(p) ==
    /\ dbcalls.procs[p].pc = "reselect"
    /\ dbcalls' = GotRow(p, chats[DbChat])
    /\ UNCHANGED <<cacheVars, sched, pureVars, botVars>>

\* Lines 117-119: new_value from the row read earlier, UPDATE chats SET
\* notify_enabled = new_value WHERE chat_id = ?, return new_value == 1
DbUpdate(p) ==
    /\ dbcalls.procs[p].pc = "update"
    /\ LET new_value == toggle_notify(dbcalls.procs[p].chat).notify_enabled
       IN  /\ chats' = [chats EXCEPT ![DbChat].notify_enabled = new_value]
           /\ dbcalls' = [dbcalls EXCEPT
                             !.procs[p] = [@ EXCEPT !.pc = "returned",
                                                    !.stored = new_value,
                                                    !.ret_flag = (new_value = 1)],
                             !.toggles_done = @ + 1]
    /\ UNCHANGED <<cacheVars, sched, pureVars, nextMsgId, log>>

InitDb ==
    /\ InitCache
    /\ sched = NoSched
    /\ InitPureIdle
    /\ nextMsgId = 1
    /\ log = NoLog
    /\ \E row \in {NoRow, NewRow, [NewRow EXCEPT !.notify_enabled = 1],
                   [set_group(NewRow, VALID_GROUPS[1]) EXCEPT !.last_message_id = 1]} :
          /\ chats = [c \in ChatIds |-> row]
          /\ dbcalls = [NoDbCalls EXCEPT !.initial = row]

NextDb ==
    \E p \in Coroutines :
        \/ \E op \in DbOps : DbBegin(p, op)
        \/ DbSelect(p)
        \/ DbInsert(p)
        \/ DbReselect(p)
        \/ DbUpdate(p)

SpecDb == InitDb /\ [][NextDb]_vars

(***************************************************************************)
(* Properties of the cache (checked under Spec)                            *)
(***************************************************************************)
\* Coroutines whose upstream request for region r is in flight
InFlight(r) == {p \in Coroutines : pc[p] = "fetching" /\ region_cpu[p] = r}

\* Steps of a coroutine, recognised by what they change
BeginStep(p, r) == pc[p] = "idle" /\ pc'[p] # "idle" /\ region_cpu'[p] = r
FailStep(p) == pc[p] = "fetching" /\ pc'[p] = "raised"
StoreStep(p) == pc[p] = "fetching" /\ pc'[p] = "returned"

\* The entry of region r has expiry > t
Unexpired(r, t) == RAW_CACHE[r] # NoEntry /\ RAW_CACHE[r][1] > t

\* C1: at most one upstream fetch per region key is in flight at any time:
\* a caller that misses while a fetch for the key is in progress waits for
\* it instead of issuing its own request.
C1_SingleFlight == \A r \in Regions : Cardinality(InFlight(r)) <= 1

\* C2: a call made at time t while the region's entry has expiry > t returns
\* exactly that entry's payload and issues no upstream request (it returns
\* without ever suspending on a GET); and a call for a region made 5 s after
\* the start of a completed successful fetch for it is such a hit, so the two
\* calls issue one upstream request in total.
C2_LiveHit ==
    [][\A p \in Coroutines, r \in Regions :
          BeginStep(p, r) =>
             /\ Unexpired(r, clock) =>
                   /\ pc'[p] = "returned"
                   /\ ret'[p] = RAW_CACHE[r][2]
                   /\ RAW_CACHE' = RAW_CACHE
             /\ (lastFetch.region = r /\ clock = lastFetch.now + 5) =>
                   /\ pc'[p] = "returned"
                   /\ kind'[p] = "hit"]_vars

\* C2 witness: a call made 5 s after the start of a completed fetch for the
\* same region was served from the cache.
C2_Witness ==
    \E p \in Coroutines :
       /\ pc[p] = "returned" /\ kind[p] = "hit"
       /\ lastFetch.region = region_cpu[p]
       /\ now[p] = lastFetch.now + 5
       /\ RAW_CACHE[region_cpu[p]] = <<lastFetch.now + CACHE_TTL_SECONDS, ret[p]>>

\* C3: a failed upstream fetch raises to its caller and changes no cache
\* entry; an entry that has not expired is served, without error, by every
\* call that begins before its expiry (only a call that missed can raise).
C3_FailureKeepsCache ==
    /\ [][\A p \in Coroutines :
             FailStep(p) => RAW_CACHE' = RAW_CACHE]_vars
    /\ [][\A p \in Coroutines, r \in Regions :
             (BeginStep(p, r) /\ Unexpired(r, clock)) =>
                 (pc'[p] = "returned" /\ ret'[p] = RAW_CACHE[r][2])]_vars
    /\ [](\A p \in Coroutines : pc[p] = "raised" => kind[p] = "miss")

\* C3 witness: one coroutine's fetch failed while the region held an
\* unexpired entry, and a later call of another coroutine was served it.
C3_Witness ==
    \E p, q \in Coroutines :
       /\ pc[p] = "raised"
       /\ pc[q] = "returned" /\ kind[q] = "hit"
       /\ region_cpu[q] = region_cpu[p]
       /\ now[q] >= now[p]
       /\ Unexpired(region_cpu[p], clock)
       /\ ret[q] = RAW_CACHE[region_cpu[p]][2]

\* C4 as stated: the stored expiry is the instant the payload was obtained
\* (the completion of the fetch) plus the time-to-live.
C4_ExpiryFromCompletion ==
    [][\A p \in Coroutines :
          StoreStep(p) =>
             RAW_CACHE'[region_cpu[p]][1] = clock + CACHE_TTL_SECONDS]_vars

\* C4 amended: after a miss or an expired entry, a successful fetch stores
\* for the region an entry holding the fetched payload whose expiry is the
\* instant the call read the clock, before it issued the request, plus the
\* time-to-live; the entry is therefore served for the time-to-live less the
\* duration of the fetch after the fetch completes.
C4_ExpiryFromCallStart ==
    /\ [][\A p \in Coroutines, r \in Regions :
             BeginStep(p, r) => now'[p] = clock]_vars
    /\ [][\A p \in Coroutines :
             StoreStep(p) =>
                /\ kind[p] = "miss"
                /\ RAW_CACHE'[region_cpu[p]] = <<now[p] + CACHE_TTL_SECONDS, upstream>>
                /\ RAW_CACHE'[region_cpu[p]][1] - clock
                     = CACHE_TTL_SECONDS - (clock - now[p])]_vars

\* C4 witness: an entry replaced an expired one, stored by a fetch that took
\* time to complete.
C4_Witness ==
    \E p \in Coroutines :
       /\ pc[p] = "returned" /\ kind[p] = "miss"
       /\ now[p] >= CACHE_TTL_SECONDS
       /\ clock > now[p] /\ clock - now[p] <= FETCH_TIMEOUT
       /\ RAW_CACHE[region_cpu[p]] = <<now[p] + CACHE_TTL_SECONDS, ret[p]>>

(***************************************************************************)
(* Properties of the derivation (checked under SpecSched)                  *)
(***************************************************************************)
\* The 48 half-hour slots of a day, by index, and their keys and instants
SlotIndexes == 0 .. 47
SlotKey(k) == <<k \div 2, 30 * (k % 2)>>
SlotStart(date, k) == date * DAY + k * HALF_HOUR
\* The status of slot k in a slot map, a missing key counting as on (1)
EffStatus(m, k) == IF SlotKey(k) \in DOMAIN m THEN m[SlotKey(k)] ELSE 1
OffSlots(m) == {k \in SlotIndexes : EffStatus(m, k) = 2}

\* [a, b) lies inside one interval of the list
Inside(ivs, a, b) ==
    \E i \in 1 .. Len(ivs) : ivs[i].start <= a /\ b <= ivs[i].end

CoversExactlyOff(date, m, ivs) ==
    \A k \in SlotIndexes :
       Inside(ivs, SlotStart(date, k), SlotStart(date, k) + HALF_HOUR)
          <=> EffStatus(m, k) = 2

Done == sched.stage = "result"
At(h, mi) == <<h, mi>>

\* C5: the intervals returned for a day cover exactly the half-hour slots
\* whose status is 2 (missing keys counting as on, any other value as not
\* off); off at 10:00 and 10:30 with on at 09:30 and 11:00 and nothing else
\* off gives the single interval [10:00, 11:00).
C5_CoversExactlyOffSlots ==
    Done =>
       /\ CoversExactlyOff(sched.date_today, sched.slots_today, sched.today_off)
       /\ CoversExactlyOff(sched.date_tomorrow, sched.slots_tomorrow,
                           sched.tomorrow_off)
       /\ OffSlots(sched.slots_today) = {20, 21} =>
             sched.today_off =
                <<[start |-> sched.date_today * DAY + 10 * HOUR,
                   end |-> sched.date_today * DAY + 11 * HOUR]>>

\* C5 witness: 09:30 on, 10:00 and 10:30 off, 11:00 on (absent), and the one
\* interval [10:00, 11:00) derived.
C5_Witness ==
    /\ Done
    /\ sched.slots_today = (At(9, 30) :> 1) @@ (At(10, 0) :> 2) @@ (At(10, 30) :> 2)
    /\ sched.today_off = <<[start |-> sched.date_today * DAY + 10 * HOUR,
                            end |-> sched.date_today * DAY + 11 * HOUR]>>

WellFormed(ivs) ==
    /\ \A i \in 1 .. Len(ivs) : ivs[i].start < ivs[i].end
    /\ \A i \in 1 .. Len(ivs) - 1 :
          /\ ivs[i].start < ivs[i + 1].start
          /\ ivs[i].end <= ivs[i + 1].start
          /\ ivs[i].end # ivs[i + 1].start

\* C6: each derived interval has start < end; a day's list is in strictly
\* ascending start order, without overlap, and maximally merged (no
\* interval ends where the next one starts).
C6_IntervalsWellFormed ==
    Done => WellFormed(sched.today_off) /\ WellFormed(sched.tomorrow_off)

\* C6 witness: three intervals today, one of them merged from adjacent off
\* slots.
C6_Witness ==
    /\ Done
    /\ Len(sched.today_off) = 3
    /\ \E i \in 1 .. 3 :
          sched.today_off[i].end - sched.today_off[i].start > HALF_HOUR

LastOf(ivs) == ivs[Len(ivs)]

\* C7: if the 23:30 slot of a day is off the day's last interval ends
\* exactly at 00:00 of the next day, and no interval of the day ends later
\* or starts before the day; a map empty except "23:30"=2 gives exactly
\* [23:30, next-day 00:00) with 30 minutes in total; tomorrow's list comes
\* from tomorrow's slot map alone, so an outage continuing past midnight
\* is a separate interval starting at tomorrow's 00:00.
C7_MidnightClose ==
    Done =>
       LET d == sched.date_today
           e == sched.date_tomorrow
           T == sched.today_off
           M == sched.tomorrow_off
       IN  /\ EffStatus(sched.slots_today, 47) = 2 =>
                 (Len(T) >= 1 /\ LastOf(T).end = (d + 1) * DAY)
           /\ \A i \in 1 .. Len(T) :
                 T[i].start >= d * DAY /\ T[i].end <= (d + 1) * DAY
           /\ sched.slots_today = (At(23, 30) :> 2) =>
                 /\ T = <<[start |-> d * DAY + 23 * HOUR + 30 * MINUTE,
                           end |-> (d + 1) * DAY]>>
                 /\ sched.total_off_today_minutes = 30
           /\ \A i \in 1 .. Len(M) :
                 M[i].start >= e * DAY /\ M[i].end <= (e + 1) * DAY
           /\ (EffStatus(sched.slots_tomorrow, 0) = 2) <=>
                 (Len(M) >= 1 /\ M[1].start = e * DAY)

\* C7 witness: off at 23:30 today and at 00:00 tomorrow: today's last
\* interval ends at midnight, tomorrow's first starts there.
C7_Witness ==
    /\ Done
    /\ EffStatus(sched.slots_today, 47) = 2
    /\ EffStatus(sched.slots_tomorrow, 0) = 2
    /\ LastOf(sched.today_off).end = sched.date_tomorrow * DAY
    /\ sched.tomorrow_off[1].start = sched.date_tomorrow * DAY

\* C8: the total of a day's derived intervals is a non-negative integer
\* multiple of 30.
C8_TotalMultipleOf30 ==
    Done =>
       /\ sched.total_off_today_minutes \in Nat
       /\ sched.total_off_today_minutes % 30 = 0

\* C8 witness: a day with three off slots, 90 minutes.
C8_Witness == Done /\ sched.total_off_today_minutes = 90

\* C9 as stated: the total equals 1800 times the number of off slots.
C9_Total1800PerOffSlot ==
    Done =>
       sched.total_off_today_minutes
          = 1800 * Cardinality(OffSlots(sched.slots_today))

\* C9 amended: the total, in minutes, equals 30 times the number of slots
\* whose status is off (2).
C9_Total30PerOffSlot ==
    Done =>
       sched.total_off_today_minutes
          = 30 * Cardinality(OffSlots(sched.slots_today))

\* C9 witness: four off slots, 120 minutes.
C9_Witness ==
    /\ Done
    /\ Cardinality(OffSlots(sched.slots_today)) = 4
    /\ sched.total_off_today_minutes = 120

\* The half-hour boundary enclosing an instant, and its slot index
Boundary(t) == t - (t % HALF_HOUR)
SlotOf(t) == (t % DAY) \div HALF_HOUR
InToday(t) ==
    sched.date_today * DAY <= t /\ t < sched.date_today * DAY + DAY

\* C10: with b the half-hour boundary enclosing now: if b lies in today's
\* span, the flag follows the status stored for b's key - on when the key
\* is missing or holds 1, off when it holds 2 (10:15 with "10:00"=2 gives
\* false); if b lies outside today's span the flag is on whatever the map
\* holds.
C10_NowHasPower ==
    Done =>
       LET b == Boundary(sched.now)
           k == SlotOf(b)
           m == sched.slots_today
       IN  /\ (InToday(b) /\ SlotKey(k) \notin DOMAIN m) => sched.now_has_power
           /\ (InToday(b) /\ EffStatus(m, k) = 1) => sched.now_has_power
           /\ (InToday(b) /\ EffStatus(m, k) = 2) => ~sched.now_has_power
           /\ ~InToday(b) => sched.now_has_power

\* C10 witness: now = 10:15 today with "10:00"=2: no power.
C10_Witness ==
    /\ Done
    /\ sched.now = sched.date_today * DAY + 10 * HOUR + 15 * MINUTE
    /\ At(10, 0) \in DOMAIN sched.slots_today
    /\ sched.slots_today[At(10, 0)] = 2
    /\ ~sched.now_has_power


(***************************************************************************)
(* Properties of _find_next_outage (checked under SpecNext)                *)
(***************************************************************************)
AllStarts == { nextq.today_off[i].start : i \in DOMAIN nextq.today_off }
             \cup { nextq.tomorrow_off[i].start : i \in DOMAIN nextq.tomorrow_off }
AllIntervals == { nextq.today_off[i] : i \in DOMAIN nextq.today_off }
                \cup { nextq.tomorrow_off[i] : i \in DOMAIN nextq.tomorrow_off }
Probed == nextq.stage = "lists" /\ Len(nextq.calls) > 0

\* C11: _find_next_outage returns the smallest start, over today's and
\* tomorrow's intervals together, that is strictly greater than now, and None
\* when there is none; a start <= now is never returned, even when now lies
\* inside that interval.
C11_SmallestFutureStart ==
    nextq.stage = "lists" =>
        \A i \in DOMAIN nextq.calls :
            LET c == nextq.calls[i]
                future == { st \in AllStarts : st > c.now }
            IN  IF future = {} THEN c.res = NoDt
                ELSE /\ c.res \in future
                     /\ \A st \in future : c.res <= st

\* now lies inside an interval that has already started, today's list holds a
\* later start than tomorrow's, and a strictly later start is returned.
C11_Witness ==
    /\ Probed
    /\ \E i \in DOMAIN nextq.calls :
          LET c == nextq.calls[i]
          IN  /\ \E iv \in AllIntervals : iv.start <= c.now /\ c.now < iv.end
              /\ c.res # NoDt /\ c.res > c.now
              /\ \E j \in DOMAIN nextq.today_off, k \in DOMAIN nextq.tomorrow_off :
                    /\ nextq.today_off[j].start > nextq.tomorrow_off[k].start
                    /\ nextq.tomorrow_off[k].start = c.res

\* C12: for fixed lists and now1 < now2, a start returned at now2 is not
\* earlier than the start returned at now1, and None at now1 means None at
\* now2.
C12_Monotone ==
    nextq.stage = "lists" =>
        \A i, j \in DOMAIN nextq.calls :
            nextq.calls[i].now < nextq.calls[j].now =>
                /\ (nextq.calls[i].res # NoDt /\ nextq.calls[j].res # NoDt)
                      => nextq.calls[j].res >= nextq.calls[i].res
                /\ nextq.calls[i].res = NoDt => nextq.calls[j].res = NoDt

\* two probes of the same lists: the first answers with one start, the
\* second, taken after that start has passed, with a later one.
C12_Witness ==
    /\ nextq.stage = "lists"
    /\ Len(nextq.calls) >= 2
    /\ nextq.calls[1].res # NoDt
    /\ nextq.calls[2].now >= nextq.calls[1].res
    /\ nextq.calls[2].res > nextq.calls[1].res


(***************************************************************************)
(* Minutes until the next outage (checked under SpecSched)                 *)
(***************************************************************************)
CeilMinutes(d) == (d + MINUTE - 1) \div MINUTE

\* C13: whenever get_schedule reports a next outage, next_outage_in_minutes
\* is the ceiling, in whole minutes, of next_outage_start - now (so at least 1
\* when the start is strictly in the future) and is never negative.
C13_CeilingMinutes ==
    (Done /\ sched.next_outage_start_dt # NoDt) =>
        /\ sched.next_outage_in_minutes
              = CeilMinutes(sched.next_outage_start_dt - sched.now)
        /\ sched.next_outage_in_minutes >= 0
        /\ sched.next_outage_start_dt > sched.now
              => sched.next_outage_in_minutes >= 1


(***************************************************************************)
(* Properties of the fingerprint (checked under SpecHash)                  *)
(***************************************************************************)
Hashed == hashq.stage = "result"
DiffToday == {k \in SlotIndexes : EffStatus(hashq.today_a, k) # EffStatus(hashq.today_b, k)}
DiffTomorrow ==
    {k \in SlotIndexes : EffStatus(hashq.tomorrow_a, k) # EffStatus(hashq.tomorrow_b, k)}
SameEffective == DiffToday = {} /\ DiffTomorrow = {}

\* C14: two pairs of slot maps with the same effective status at each of the
\* 96 half-hour keys (a missing key counting as 1, keys that are no boundary
\* ignored) give the same digested string and the same fingerprint.
C14_Canonical ==
    (Hashed /\ SameEffective) => (hashq.same_input /\ hashq.same_hash)

\* the two pairs are different maps (a key present with value 1 in one and
\* missing in the other, or an extra non-boundary key) with equal fingerprints.
C14_Witness ==
    /\ Hashed
    /\ SameEffective
    /\ <<hashq.today_a, hashq.tomorrow_a>> # <<hashq.today_b, hashq.tomorrow_b>>
    /\ hashq.same_hash

\* C15: pairs of slot maps that differ in the effective status of a slot
\* (one of the 96) never serialize to the same string, hence never get the
\* same fingerprint.
C15_Sensitive ==
    (Hashed /\ ~SameEffective) => (~hashq.same_input /\ ~hashq.same_hash)

\* exactly one slot differs, it is one of tomorrow's, the two strings have the
\* same length, and they differ.
C15_Witness ==
    /\ Hashed
    /\ DiffToday = {}
    /\ Cardinality(DiffTomorrow) = 1
    /\ hashq.len_a = hashq.len_b
    /\ ~hashq.same_input


(***************************************************************************)
(* Properties of the extraction (checked under SpecExtract)                *)
(***************************************************************************)
Extracted == extq.stage = "result"
PayloadRegions ==
    IF "regions" \in DOMAIN extq.payload.v THEN extq.payload.v["regions"].v ELSE <<>>
Matching == {i \in DOMAIN PayloadRegions : PayloadRegions[i].v["cpu"].v = extq.region_cpu}
HasRegion == Matching # {}
FoundBlock == PayloadRegions[CHOOSE i \in Matching : \A j \in Matching : i <= j]
\* d holds a non-empty dict under key k
HasDict(d, k) == k \in DOMAIN d.v /\ d.v[k].t = "dict" /\ DOMAIN d.v[k].v # {}
\* The feed's slot dict for the requested group and date, <<>> when the
\* schedule, the group or the date is missing, null or empty.
DayRaw ==
    IF ~HasDict(FoundBlock, "schedule") THEN <<>>
    ELSE IF ~HasDict(FoundBlock.v["schedule"], extq.group_name) THEN <<>>
    ELSE IF ~HasDict(FoundBlock.v["schedule"].v[extq.group_name], extq.date_str) THEN <<>>
    ELSE FoundBlock.v["schedule"].v[extq.group_name].v[extq.date_str].v
\* Values that denote an integer, and the integer they denote
Convertible(j) ==
    j.t \in {"int", "float"} \/ (j.t = "str" /\ j.v \in {<<"2">>, <<" ", "2">>})
Denoted(j) == IF j.t = "int" THEN j.v ELSE 2
KeyStart(date, key) == date * DAY + key[1] * HOUR + key[2] * MINUTE

\* C16: extraction raises the region-not-found error exactly when no region
\* block has the requested identifier; with the region found, a missing
\* group or date gives an empty slot map, a value that is no integer leaves
\* its key out of the map, and such slots count as power on (an empty map
\* gives no intervals and 0 minutes off).
C16_ExtractionErrors ==
    Extracted =>
        /\ extq.raised \in {"none", "ValueError"}
        /\ (extq.raised = "ValueError") <=> ~HasRegion
        /\ HasRegion =>
              /\ DOMAIN extq.slots = {k \in DOMAIN DayRaw : Convertible(DayRaw[k])}
              /\ \A k \in DOMAIN extq.slots : extq.slots[k] = Denoted(DayRaw[k])
              /\ \A k \in DOMAIN DayRaw :
                    ~Convertible(DayRaw[k]) =>
                       ~Inside(extq.off, KeyStart(extq.date_str, k),
                               KeyStart(extq.date_str, k) + HALF_HOUR)
              /\ extq.slots = <<>> => (extq.off = <<>> /\ extq.total_off_minutes = 0)

\* the region is the second block of the payload; its 10:00 value is not an
\* integer and its 10:30 value is the string "2": only 10:30 is in the slot
\* map, and the only outage is 10:30-11:00.
C16_Witness ==
    /\ Extracted
    /\ extq.raised = "none"
    /\ Matching = {2}
    /\ DOMAIN DayRaw = {<<10, 0>>, <<10, 30>>}
    /\ DayRaw[<<10, 0>>].t = "null"
    /\ DayRaw[<<10, 30>>] = JStr(<<"2">>)
    /\ extq.slots = (<<10, 30>> :> 2)
    /\ extq.total_off_minutes = 30


(***************************************************************************)
(* Properties of the bot (checked under SpecBot)                           *)
(***************************************************************************)
Ran == log.handler # "none"
Rendered == Ran /\ log.render
\* The row before the handler ran, at the entry of its render, and now
RowBefore == log.row
RowAtRender == log.render_entry
RowAfter == chats[log.chat]
SentIds(what) == {log.sent[i].id : i \in {j \in DOMAIN log.sent : log.sent[j].what = what}}
CardsSent == Cardinality({i \in DOMAIN log.sent : log.sent[i].what = "card"})
EditSucceeded == Rendered /\ log.edited # <<>>
Delivered == Rendered /\ (EditSucceeded \/ CardsSent > 0)

C18_HashFollowsDeliveredCard ==
    Ran =>
        /\ RowAfter.last_schedule_hash # RowBefore.last_schedule_hash => Delivered
        /\ Delivered =>
              /\ RowAfter.last_schedule_hash = log.shown
              /\ log.shown.group = RowAtRender.group_name
              /\ log.shown.version \in 1 .. MaxVersion
        /\ (Rendered /\ log.raised) =>
              /\ RowAfter.last_schedule_hash = RowAtRender.last_schedule_hash
              /\ RowAfter.last_message_id = RowAtRender.last_message_id
        /\ (Rendered /\ RowAtRender.group_selected = 0) =>
              /\ SentIds("picker") = {RowAfter.last_message_id}
              /\ RowAfter = [RowAtRender EXCEPT
                                !.last_message_id = RowAfter.last_message_id]

\* an edit delivered the card of a newer feed version: the stored hash moved
\* from the earlier card's fingerprint to the fingerprint shown.
C18_Witness ==
    /\ EditSucceeded
    /\ RowBefore.last_schedule_hash # NoHash
    /\ RowAfter.last_schedule_hash # RowBefore.last_schedule_hash
    /\ RowAfter.last_schedule_hash = log.shown

GatedHandlers == {"start", "schedule", "notify", "refresh", "toggle_notify", "back_main"}

C20_ExpiryNeverDecreases ==
    [][\A r \in Regions :
          RAW_CACHE[r] # NoEntry =>
             /\ RAW_CACHE'[r] # NoEntry
             /\ RAW_CACHE'[r][1] >= RAW_CACHE[r][1]]_vars


(***************************************************************************)
(* The next outage and the power flag against the slots (checked under     *)
(* SpecSched)                                                              *)
(***************************************************************************)
\* The status of the half-hour slot that ends at instant t, for t a boundary
\* later than 00:00 of date_today and not later than 00:00 of the day after
\* date_tomorrow
StatusBefore(t) ==
    IF t <= sched.date_tomorrow * DAY
    THEN EffStatus(sched.slots_today, SlotOf(t - HALF_HOUR))
    ELSE EffStatus(sched.slots_tomorrow,
                   ((t - HALF_HOUR) - sched.date_tomorrow * DAY) \div HALF_HOUR)

\* C21: a reported next_outage_start is the beginning of a new outage: the
\* half-hour slot just before it is not an off slot, also when that slot is
\* 23:30 of today and the start is 00:00 of tomorrow; with now inside an
\* outage, the next outage is never the continuation of that outage.
C21_NextOutageIsNewOutage ==
    (Done /\ sched.next_outage_start_dt # NoDt
          /\ sched.next_outage_start_dt > sched.date_today * DAY) =>
        StatusBefore(sched.next_outage_start_dt) # 2

\* Now lies inside one of today's outage intervals
NowInsideTodayOff ==
    \E i \in DOMAIN sched.today_off :
        sched.today_off[i].start <= sched.now /\ sched.now < sched.today_off[i].end

\* C22: when now falls within today's date, now_has_power is false exactly
\* when now lies inside one of the today_off intervals, whatever integer
\* statuses the slots carry.
C22_FlagAgreesWithIntervals ==
    (Done /\ InToday(sched.now)) => (~sched.now_has_power <=> NowInsideTodayOff)


(***************************************************************************)
(* Properties of the Database methods under interleaving (checked under    *)
(* SpecDb)                                                                 *)
(***************************************************************************)
ToggleInFlight ==
    \E p \in Coroutines :
        /\ dbcalls.procs[p].op = "toggle_notify"
        /\ dbcalls.procs[p].pc \in {"select", "insert", "reselect", "update"}
Flipped(v, n) == (v + n) % 2

\* C23: after any interleaving of n completed toggle_notify calls for one
\* chat, notify_enabled is its initial value flipped n times, and each call
\* returned the value it stored.
C23_NoLostToggle ==
    /\ ~ToggleInFlight =>
          get_or_create_chat(chats[DbChat]).notify_enabled
             = Flipped(dbcalls.initial.notify_enabled, dbcalls.toggles_done)
    /\ \A p \in Coroutines :
          (dbcalls.procs[p].op = "toggle_notify" /\ dbcalls.procs[p].pc = "returned")
             => dbcalls.procs[p].ret_flag = (dbcalls.procs[p].stored = 1)

\* C24: concurrent get_or_create_chat calls for a chat_id that had no row
\* never fail, each returns the chat's row, and the row that exists
\* afterwards has group_selected = 0 and notify_enabled = 0.
C24_GetOrCreateNeverFails ==
    (~dbcalls.initial.present /\ dbcalls.toggles_started = 0) =>
        \A p \in Coroutines :
            /\ dbcalls.procs[p].pc # "raised"
            /\ dbcalls.procs[p].pc = "returned" =>
                  /\ chats[DbChat].present
                  /\ dbcalls.procs[p].ret_row = chats[DbChat]
                  /\ chats[DbChat].group_selected = 0
                  /\ chats[DbChat].notify_enabled = 0

====
